---- MODULE Spec2Model ----
(***************************************************************************)
(* Model of twitter_api.py: the cursor pagination of search_tweets, the    *)
(* append-only record log written by fetch_results, and the grouping done  *)
(* by process_results / group_dataframe.                                   *)
(*                                                                         *)
(* Python dicts are modelled as TLA+ records whose DOMAIN is the set of    *)
(* keys that are present: d["k"] raises KeyError when "k" is not in        *)
(* DOMAIN d, d.get("k") gives None / the default.                          *)
(***************************************************************************)
EXTENDS Integers, Sequences, FiniteSets, TLC

(***************************************************************************)
(* Bounds of the model.                                                    *)
(***************************************************************************)
\* page requests explored in one run of search_tweets
MaxRequests == 3
\* a further fetch run starts only while the log holds at most this many lines
MaxLogAtStart == 1
\* longest record log process_results is run on
MaxLogLen == 3
\* the MAX_RESULT_COUNT main passes to every run, when runs are repeated
\* against one upstream
MaxResultCount == 2

\* src/twitter_api.py:55  max_results = min(100, result_count)
PageCeiling == 100

\* Python's None
None == "None"

Min(a, b) == IF a <= b THEN a ELSE b

\* ceil(a / b) for b >= 1
CeilDiv(a, b) == (a + b - 1) \div b

(***************************************************************************)
(* The upstream (tweepy.Client.get_users_tweets).  Pagination tokens are   *)
(* opaque strings.                                                         *)
(***************************************************************************)
TokenNames == <<"A", "B", "C", "D", "E", "F", "G", "H">>

\* a token never returned before in the run; tokens are compared for equality
\* only, so new ones are named in their order of appearance
FreshToken(tokens) == TokenNames[Cardinality(tokens) + 1]

\* Tweet ids are decimal strings in the API's JSON; a string is modelled as
\* the sequence of its digits.  created_at is a fixed-width ISO timestamp,
\* modelled by its rank in time.
Tweet1 ==
    [id |-> <<9>>, created_at |-> 1,
     entities |-> [mentions |-> <<[username |-> "alice"]>>,
                   annotations |-> <<[type |-> "Other",
                                      normalized_text |-> "rust"]>>]]

Tweet2 ==
    [id |-> <<1, 0>>, created_at |-> 2,
     entities |-> [mentions |-> <<[username |-> "alice"],
                                  [username |-> "bob"]>>,
                   annotations |-> <<[type |-> "Other",
                                      normalized_text |-> "rust"]>>]]

\* a tweet without any entity: the API omits the "entities" field
Tweet3 == [id |-> <<1, 1>>, created_at |-> 3]

\* entities without an "annotations" list
Tweet4 ==
    [id |-> <<1, 2>>, created_at |-> 4,
     entities |-> [mentions |-> <<[username |-> "bob"]>>]]

\* entities without a "mentions" list
Tweet5 ==
    [id |-> <<1, 3>>, created_at |-> 5,
     entities |-> [annotations |-> <<[type |-> "Place",
                                      normalized_text |-> "go"]>>]]

\* a mention without "username", an annotation without "normalized_text"
Tweet6 ==
    [id |-> <<1, 4>>, created_at |-> 6,
     entities |-> [mentions |-> <<[start |-> 0]>>,
                   annotations |-> <<[type |-> "Other"]>>]]

\* the tweets the upstream serves in the model
Timeline == <<Tweet1, Tweet2>>

\* the result_count values the model explores over several runs
ResultCounts == {1, 2}

\* those it explores in one run: one of them is above the page ceiling, so
\* that min(100, result_count) is 100
PagingResultCounts == ResultCounts \cup {3, PageCeiling + 1}

\* an element of response.data: a tweepy.Tweet, whose .data is the JSON dict
TweetObject(t) == [data |-> t]

\* an element of response.data that has no .data attribute
BadObject == [bad |-> TRUE]

\* n consecutive tweets of the timeline (cyclically) starting at position s
PageItems(s, n) ==
    [i \in 1..n |-> TweetObject(Timeline[((s + i - 2) % Len(Timeline)) + 1])]

\* the lengths of the pages the model explores: empty, one item, full
PageLens(max_results) == {n \in 0..max_results : n <= 1 \/ n = max_results}

\* response.data: n tweets from position s of the timeline, the element at
\* position bad (if any) being no tweet object
Data(s, n, bad) ==
    [i \in 1..n |-> IF i = bad THEN BadObject ELSE PageItems(s, n)[i]]

\* response.meta: "next_token" is missing on the upstream's last page;
\* otherwise it is None, a token the run has collected or a new one
Metas(tokens) ==
    {[result_count |-> 0]} \cup
    {[result_count |-> 0, next_token |-> t] :
        t \in tokens \cup {None, FreshToken(tokens)}}

\* the shapes of response.data the model explores: None, or at most
\* max_results items, well formed (bad = 0) or with a bad first or last one
Shapes(max_results) ==
    {[none |-> TRUE, start |-> 1, len |-> 0, bad |-> 0]} \cup
    UNION {{[none |-> FALSE, start |-> s, len |-> n, bad |-> b] :
               s \in 1..Len(Timeline), b \in {0, 1, n}} :
           n \in PageLens(max_results)}

\* the response of get_users_tweets; response.data is None (no "data" field
\* here) when the upstream sends no data
Response(meta, shape) ==
    IF shape.none THEN [meta |-> meta]
    ELSE [meta |-> meta, data |-> Data(shape.start, shape.len, shape.bad)]

(***************************************************************************)
(* State.                                                                  *)
(***************************************************************************)
VARIABLES
    pc,                 \* "idle"; "loop": search_tweets is at line 57;
                        \* "done": it has ended, fetch_results is leaving
    result_count,       \* search_tweets' parameter
    max_results,        \* line 55
    pagination_token,   \* line 53
    count,              \* line 54
    pagination_tokens,  \* line 56
    log,                \* the lines of DATAPATH
    requests,           \* history: get_users_tweets calls of this run
    sent,               \* history: the pagination_token of each call
    responses,          \* history: the response to each call
    got,                \* history: the items yielded from each response
    yielded,            \* history: the dicts yielded in this run, in order
    log0,               \* history: the log when this run opened it
    outcome,            \* how this fetch run ended
    mention_csv,        \* the file MENTION_PATH
    annotation_csv,     \* the file ANNOTATION_PATH
    agg,                \* how the last process_results run ended
    mention_csv0,       \* history: MENTION_PATH before that run
    annotation_csv0,    \* history: ANNOTATION_PATH before that run
    upstream            \* the upstream's answer to each token, where it is
                        \* the same for every request (SpecRerun)

vars == <<pc, result_count, max_results, pagination_token, count,
          pagination_tokens, log, requests, sent, responses, got, yielded,
          log0, outcome, mention_csv, annotation_csv, agg, mention_csv0,
          annotation_csv0, upstream>>

\* what process_results reads and writes beside the log
aggVars == <<mention_csv, annotation_csv, agg, mention_csv0, annotation_csv0>>

\* the locals of search_tweets and the history of the fetch run
fetchVars == <<pc, result_count, max_results, pagination_token, count,
               pagination_tokens, requests, sent, responses, got, yielded,
               log0, outcome>>

(***************************************************************************)
(* search_tweets                                                           *)
(***************************************************************************)
\* line 53 with the token resumed from the log: the stamp of its last line
ResumeToken ==
    IF log = <<>> THEN None ELSE log[Len(log)].json.next_token

\* line 53: pagination_token = None
StartToken == None

\* line 55
PageSize(rc) == Min(PageCeiling, rc)

\* line 73 with AttributeError alone
CatchesAttributeError(exception) == exception \in {"AttributeError"}

\* line 73: except (AttributeError, KeyError) around the read of the token
CatchesToken(exception) == exception \in {"AttributeError", "KeyError"}

\* line 83: except (AttributeError, KeyError) around the yield loop
CatchesResult(exception) == exception \in {"AttributeError", "KeyError"}

\* lines 71-75: response.meta["next_token"] raises KeyError
TokenMissing(response) == "next_token" \notin DOMAIN response.meta

\* line 78: iterating None raises TypeError, which line 83 does not catch
DataIsNone(response) == "data" \notin DOMAIN response

\* line 79: result.data raises AttributeError, caught at line 83
HasData(result) == "data" \in DOMAIN result

\* lines 78-85: the results the for loop passes before it ends or fails
Readable(data) ==
    LET bad == {i \in 1..Len(data) : ~HasData(data[i])}
    IN  SubSeq(data, 1, IF bad = {} THEN Len(data)
                        ELSE (CHOOSE i \in bad : \A j \in bad : i <= j) - 1)

\* line 80 with the token of the request: data["next_token"] =
\* pagination_token
StampSent(data, next_token) ==
    [k \in DOMAIN data \cup {"next_token"} |->
        IF k = "next_token" THEN pagination_token ELSE data[k]]

\* line 80: data["next_token"] = next_token
Stamp(data, next_token) ==
    [k \in DOMAIN data \cup {"next_token"} |->
        IF k = "next_token" THEN next_token ELSE data[k]]

\* lines 78-82: the dicts yielded from one response
Yields(response, next_token) ==
    LET ok == Readable(response.data)
    IN  [i \in 1..Len(ok) |-> Stamp(ok[i].data, next_token)]

\* line 88
NoAdvance(next_token, token) == next_token = token

\* line 91 without its test: a repeated token is not noticed
NeverCollected(next_token, tokens) == FALSE

\* line 91
AlreadyCollected(next_token, tokens) == next_token \in tokens

\* line 99 without its test: the loop never ends on the item count
LimitNever(n, rc) == FALSE

\* line 99 with > for >=
LimitExceeded(n, rc) == n > rc

\* line 99 without its condition: the loop ends after the first page
LimitAtOnce(n, rc) == TRUE

\* line 99
LimitReached(n, rc) == n >= rc

(***************************************************************************)
(* fetch_results                                                           *)
(***************************************************************************)
\* line 109: json.dumps(data) + "\n"; a line of the log that is valid JSON
\* carries the dict it encodes
Dumps(data) == [json |-> data]

\* line 105 with mode "w": opening the file empties it
OpenTruncate(content) == <<>>

\* line 105: open(DATAPATH, "a") keeps the content of the file
OpenAppend(content) == content

\* lines 106-109: one write per yielded dict, in order
WriteAll(content, items) ==
    content \o [i \in 1..Len(items) |-> Dumps(items[i])]

\* lines 103-105 and 52-56: fetch_results opens the log and creates the
\* generator, whose locals are initialised on its first step
fetch_results(rc) ==
    /\ pc = "idle"
    /\ pc' = "loop"
    /\ result_count' = rc
    /\ max_results' = PageSize(rc)
    /\ pagination_token' = StartToken
    /\ count' = 0
    /\ pagination_tokens' = {}
    /\ log' = OpenAppend(log)
    /\ log0' = log
    /\ requests' = 0
    /\ sent' = <<>>
    /\ responses' = <<>>
    /\ got' = <<>>
    /\ yielded' = <<>>
    /\ outcome' = "running"
    /\ UNCHANGED aggVars
    /\ UNCHANGED upstream

\* lines 57-100 with lines 106-109: one iteration of the while loop, from the
\* page request to the break or the next iteration, with the writes
\* fetch_results makes for the dicts yielded on the way
Page(response) ==
    /\ pc = "loop"
    /\ requests' = requests + 1
    /\ sent' = Append(sent, pagination_token)
    /\ responses' = Append(responses, response)
    /\ UNCHANGED <<result_count, max_results, log0>>
    /\ UNCHANGED aggVars
    /\ UNCHANGED upstream
    /\ IF TokenMissing(response)
       THEN \* line 72 raises KeyError; lines 73-75: break
            /\ pc' = "done"
            /\ outcome' = IF CatchesToken("KeyError") THEN "returned"
                          ELSE "raised"
            /\ got' = Append(got, 0)
            /\ UNCHANGED <<pagination_token, count, pagination_tokens, log,
                           yielded>>
       ELSE LET next_token == response.meta.next_token
            IN  IF DataIsNone(response)
                THEN \* line 78 raises TypeError, which leaves
                     \* search_tweets and fetch_results unless line 83
                     \* catches it; the with block closes the file
                     /\ pc' = "done"
                     /\ outcome' = IF CatchesResult("TypeError")
                                   THEN "returned" ELSE "raised"
                     /\ got' = Append(got, 0)
                     /\ UNCHANGED <<pagination_token, count,
                                    pagination_tokens, log, yielded>>
                ELSE LET items == Yields(response, next_token)
                         n == count + Len(items)
                         failed == Len(items) < Len(response.data)
                         stop == \/ failed
                                 \/ NoAdvance(next_token, pagination_token)
                                 \/ AlreadyCollected(next_token,
                                                     pagination_tokens)
                                 \/ next_token = None
                                 \/ LimitReached(n, result_count)
                         assigned == /\ ~failed
                                     /\ ~NoAdvance(next_token,
                                                   pagination_token)
                                     /\ ~AlreadyCollected(next_token,
                                                          pagination_tokens)
                     IN  /\ count' = n
                         /\ yielded' = yielded \o items
                         /\ got' = Append(got, Len(items))
                         /\ log' = WriteAll(log, items)
                         /\ pagination_token' =
                              IF assigned THEN next_token
                              ELSE pagination_token
                         /\ pagination_tokens' =
                              IF assigned /\ next_token # None
                              THEN pagination_tokens \cup {next_token}
                              ELSE pagination_tokens
                         /\ pc' = IF stop THEN "done" ELSE "loop"
                         /\ outcome' =
                              IF failed /\ ~CatchesResult("AttributeError")
                              THEN "raised"
                              ELSE IF stop THEN "returned" ELSE "running"

(***************************************************************************)
(* process_results and group_dataframe                                     *)
(***************************************************************************)
\* dict.get(key, default)
Get(d, key, default) == IF key \in DOMAIN d THEN d[key] ELSE default

\* a line of the log that is no JSON text
CorruptLine == [text |-> "garbage"]

\* line 118: json.loads(row) raises on a line that is no JSON text
Parses(row) == "json" \in DOMAIN row

\* line 118
Loads(row) == row.json

\* lines 118-124: the row ends process_results with an exception:
\* json.loads fails, data["created_at"] or data["id"] raises KeyError, or
\* entities is None and entities.get raises AttributeError
RowRaises(row) ==
    \/ ~Parses(row)
    \/ "created_at" \notin DOMAIN Loads(row)
    \/ "id" \notin DOMAIN Loads(row)
    \/ "entities" \notin DOMAIN Loads(row)

\* lines 124-136: the annotation records of one row
RowAnnotations(data) ==
    LET annotations == Get(data.entities, "annotations", <<>>)
    IN  [i \in 1..Len(annotations) |->
            [normalized_text |-> Get(annotations[i], "normalized_text", ""),
             annotation_type |-> Get(annotations[i], "type", None),
             tweet_created_at |-> data.created_at,
             tweet_id |-> data.id]]

\* lines 138-148: the mention records of one row
RowMentions(data) ==
    LET mentions == Get(data.entities, "mentions", <<>>)
    IN  [i \in 1..Len(mentions) |->
            [username |-> Get(mentions[i], "username", ""),
             tweet_created_at |-> data.created_at,
             tweet_id |-> data.id]]

\* lines 115-148: all_annotations after the first n rows
RECURSIVE AllAnnotations(_, _)
AllAnnotations(rows, n) ==
    IF n = 0 THEN <<>>
    ELSE AllAnnotations(rows, n - 1) \o RowAnnotations(Loads(rows[n]))

\* lines 115-148: all_mentions after the first n rows
RECURSIVE AllMentions(_, _)
AllMentions(rows, n) ==
    IF n = 0 THEN <<>>
    ELSE AllMentions(rows, n - 1) \o RowMentions(Loads(rows[n]))

\* the order of Python strings on the keys the model uses
KeyOrder == <<"", "alice", "bob", "go", "rust">>

KeyRank(k) == CHOOSE i \in 1..Len(KeyOrder) : KeyOrder[i] = k

\* Python's < on strings (here: of digits): the first difference decides, a
\* proper prefix is smaller
StrLess(a, b) ==
    \E i \in 1..(Min(Len(a), Len(b)) + 1) :
        /\ \A j \in 1..(i - 1) : a[j] = b[j]
        /\ \/ i > Len(a) /\ i <= Len(b)
           \/ i <= Len(a) /\ i <= Len(b) /\ a[i] < b[i]

\* line 38: "max" over a column of tweet ids, which are strings
MaxId(ids) == CHOOSE m \in ids : \A x \in ids : x = m \/ StrLess(x, m)

\* line 37: "max" over a column of created_at
MaxCreatedAt(times) == CHOOSE m \in times : \A x \in times : x <= m

\* line 36 with "nunique" over tweet_id: the tweets of the group, not its rows
GroupTweets(dataframe, grouping_field, k) ==
    Cardinality({dataframe[i].tweet_id :
                    i \in {j \in 1..Len(dataframe) :
                               dataframe[j][grouping_field] = k}})

\* line 36: "count" over the rows of one group
GroupCount(dataframe, grouping_field, k) ==
    Cardinality({i \in 1..Len(dataframe) : dataframe[i][grouping_field] = k})

\* lines 34-39: the aggregated row of the group of key k
GroupRow(dataframe, grouping_field, k) ==
    LET members == {i \in 1..Len(dataframe) :
                        dataframe[i][grouping_field] = k}
    IN  [key |-> k,
         count |-> GroupCount(dataframe, grouping_field, k),
         last_tweeted_at |->
             MaxCreatedAt({dataframe[i].tweet_created_at : i \in members}),
         last_tweet_url |->
             MaxId({dataframe[i].tweet_id : i \in members})]

\* line 34: groupby sorts the groups by key
RECURSIVE SortedKeys(_)
SortedKeys(keys) ==
    IF keys = {} THEN <<>>
    ELSE LET k == CHOOSE x \in keys :
                      \A y \in keys : KeyRank(x) <= KeyRank(y)
         IN  <<k>> \o SortedKeys(keys \ {k})

\* line 40 without sort_values: the rows stay in the order of groupby
Unsorted(rows) == rows

\* line 40: sort_values("count", ascending=False); rows of equal count keep
\* their order
RECURSIVE SortByCount(_)
SortByCount(rows) ==
    IF rows = <<>> THEN <<>>
    ELSE LET first == CHOOSE i \in 1..Len(rows) :
                        /\ \A j \in 1..Len(rows) :
                               rows[j].count <= rows[i].count
                        /\ \A j \in 1..(i - 1) :
                               rows[j].count < rows[i].count
             rest == [j \in 1..(Len(rows) - 1) |->
                         IF j < first THEN rows[j] ELSE rows[j + 1]]
         IN  <<rows[first]>> \o SortByCount(rest)

\* line 43
Url(tweet_id) == <<"https://twitter.com/robotventures/status/", tweet_id>>

\* line 34: an empty list makes a DataFrame without columns, and groupby
\* raises KeyError
GroupRaises(dataframe) == dataframe = <<>>

\* lines 26-45
group_dataframe(dataframe, grouping_field) ==
    LET keys == SortedKeys({dataframe[i][grouping_field] :
                                i \in 1..Len(dataframe)})
        grouped == [i \in 1..Len(keys) |->
                       GroupRow(dataframe, grouping_field, keys[i])]
        sorted == SortByCount(grouped)
    IN  [i \in 1..Len(sorted) |->
            [sorted[i] EXCEPT !.last_tweet_url = Url(@)]]

\* a file that does not exist
Absent == [state |-> "absent"]

\* lines 157-158 with mode="a": to_csv adds its lines to those the file holds
CsvAppend(index, rows) ==
    LET old == IF index = "username" THEN mention_csv ELSE annotation_csv
    IN  IF old = Absent
        THEN [state |-> "written",
              header |-> <<index, "count", "last_tweeted_at",
                           "last_tweet_url">>,
              rows |-> rows]
        ELSE [old EXCEPT !.rows = @ \o rows]

\* lines 157-158: to_csv writes the header and one line per row
Csv(index, rows) ==
    [state |-> "written",
     header |-> <<index, "count", "last_tweeted_at", "last_tweet_url">>,
     rows |-> rows]

\* the storage's part in one run of process_results: whether the log can be
\* read, and whether each to_csv succeeds; one that fails raises and is taken
\* to leave its file as it was
Storage == [read : BOOLEAN, mentions : BOOLEAN, annotations : BOOLEAN]

\* line 114 with mode "w+": opening the file empties it
OpenWrite(content) == <<>>

\* line 114: open(DATAPATH) opens the file for reading and keeps its content
OpenRead(content) == content

\* lines 112-158
process_results(storage) ==
    /\ pc = "idle"
    /\ mention_csv0' = mention_csv
    /\ annotation_csv0' = annotation_csv
    /\ log' = OpenRead(log)
    /\ UNCHANGED fetchVars
    /\ UNCHANGED upstream
    /\ IF ~storage.read
       THEN /\ agg' = "read_error"
            /\ UNCHANGED <<mention_csv, annotation_csv>>
       ELSE IF \E i \in 1..Len(log) : RowRaises(log[i])
       THEN /\ agg' = "row_error"
            /\ UNCHANGED <<mention_csv, annotation_csv>>
       ELSE LET all_mentions == AllMentions(log, Len(log))
                all_annotations == AllAnnotations(log, Len(log))
            IN  IF GroupRaises(all_mentions) \/ GroupRaises(all_annotations)
                THEN /\ agg' = "group_error"
                     /\ UNCHANGED <<mention_csv, annotation_csv>>
                ELSE LET mention_aggregation ==
                             group_dataframe(all_mentions, "username")
                         annotation_aggregation ==
                             group_dataframe(all_annotations,
                                             "normalized_text")
                     IN  IF ~storage.mentions
                         THEN \* line 157 raises
                              /\ agg' = "mention_write_error"
                              /\ UNCHANGED <<mention_csv, annotation_csv>>
                         ELSE /\ mention_csv' =
                                   Csv("username", mention_aggregation)
                              /\ IF ~storage.annotations
                                 THEN \* line 158 raises
                                      /\ agg' = "annotation_write_error"
                                      /\ UNCHANGED annotation_csv
                                 ELSE /\ agg' = "ok"
                                      /\ annotation_csv' =
                                           Csv("normalized_text",
                                               annotation_aggregation)

\* the state before any run; the locals of search_tweets do not exist
\* outside a run and hold their initial values then
NoRun ==
    /\ pc = "idle"
    /\ result_count = 1
    /\ max_results = 1
    /\ pagination_token = None
    /\ count = 0
    /\ pagination_tokens = {}
    /\ requests = 0
    /\ sent = <<>>
    /\ responses = <<>>
    /\ got = <<>>
    /\ yielded = <<>>
    /\ log0 = <<>>
    /\ outcome = "none"

NoAggregation ==
    /\ mention_csv = Absent
    /\ annotation_csv = Absent
    /\ agg = "none"
    /\ mention_csv0 = Absent
    /\ annotation_csv0 = Absent

\* lines 105-109: the with block is left, by the end of the loop or by the
\* exception: the file is closed with every line written, fetch_results
\* ends and the generator's locals are gone
fetch_return ==
    /\ pc = "done"
    /\ pc' = "idle"
    /\ result_count' = 1
    /\ max_results' = 1
    /\ pagination_token' = None
    /\ count' = 0
    /\ pagination_tokens' = {}
    /\ requests' = 0
    /\ sent' = <<>>
    /\ responses' = <<>>
    /\ got' = <<>>
    /\ yielded' = <<>>
    /\ log0' = <<>>
    /\ outcome' = "none"
    /\ UNCHANGED <<log, aggVars>>
    /\ UNCHANGED upstream

(***************************************************************************)
(* The program: main runs fetch_results and process_results, any number of *)
(* times over the same files.                                              *)
(***************************************************************************)
\* an upstream that is free to answer every request as it likes
NoScript == <<>>

Init == NoRun /\ NoAggregation /\ log = <<>> /\ upstream = NoScript

\* storage on which every read and write succeeds
Reliable == [read |-> TRUE, mentions |-> TRUE, annotations |-> TRUE]

Next ==
    \/ \E rc \in ResultCounts :
          Len(log) <= MaxLogAtStart /\ fetch_results(rc)
    \/ \E meta \in Metas(pagination_tokens), shape \in Shapes(max_results) :
          requests < MaxRequests /\ Page(Response(meta, shape))
    \/ fetch_return
    \/ Len(log) <= MaxLogLen /\ process_results(Reliable)

Spec == Init /\ [][Next]_vars

(***************************************************************************)
(* One run of fetch_results, for every result_count the model explores and *)
(* over a log that is empty or holds a line of an earlier run.             *)
(***************************************************************************)
InitialLogs == {<<>>, <<Dumps(Stamp(Tweet1, None))>>}

InitPaging ==
    NoRun /\ NoAggregation /\ log \in InitialLogs /\ upstream = NoScript

\* one iteration of the loop, among the first MaxRequests of the run
PageStep ==
    \E meta \in Metas(pagination_tokens), shape \in Shapes(max_results) :
        requests < MaxRequests /\ Page(Response(meta, shape))

NextPaging ==
    \/ \E rc \in PagingResultCounts : fetch_results(rc)
    \/ PageStep

SpecPaging == InitPaging /\ [][NextPaging]_vars

\* a run that has started goes on executing: the loop blocks only in the
\* page request, which returns
FairPaging == SpecPaging /\ WF_vars(PageStep)

(***************************************************************************)
(* Properties of search_tweets and fetch_results (SpecPaging).             *)
(***************************************************************************)
\* pageSize of the run: min(100, maxResults)
RunPageSize == Min(PageCeiling, result_count)

\* the tokens passed to the page requests made so far
SentTokens == {sent[i] : i \in 1..Len(sent)}

C3_NoTokenReuse ==
    /\ \A i, j \in 1..Len(sent) : i # j => sent[i] # sent[j]
    /\ \A i \in 1..Len(sent) :
           sent[i] # None => sent[i] \in pagination_tokens
    /\ pc = "loop" =>
           /\ pagination_token \notin SentTokens
           /\ pagination_token # None =>
                  pagination_token \in pagination_tokens

\* a run that passed None, "A" and "B" and ended, short of result_count,
\* because the third response named "A" again
C3_Witness ==
    /\ pc = "done"
    /\ sent = <<None, "A", "B">>
    /\ count < result_count
    /\ got[3] > 0
    /\ yielded[Len(yielded)].next_token = "A"

\* C4: with pages of at most pageSize items, a run yields at most
\* maxResults + pageSize - 1 items.
C4_YieldBound ==
    /\ count = Len(yielded)
    /\ Len(yielded) <= result_count + RunPageSize - 1

\* a run that yielded exactly maxResults + pageSize - 1 items, over the
\* page ceiling
C4_Witness ==
    /\ pc = "done"
    /\ result_count = PageCeiling + 1
    /\ Len(yielded) = result_count + PageCeiling - 1

\* C5: from the moment a run opens the log, the log is its content at that
\* moment followed by one line per dict yielded so far, in yield order.
C5_AppendOnly ==
    outcome # "none" =>
        /\ Len(log) = Len(log0) + Len(yielded)
        /\ \A i \in 1..Len(log0) : log[i] = log0[i]
        /\ \A i \in 1..Len(yielded) :
               log[Len(log0) + i] = [json |-> yielded[i]]

\* a run over a log that was not empty, which yielded dicts and then ended
\* by the TypeError of a response without data
C5_Witness ==
    /\ pc = "done"
    /\ outcome = "raised"
    /\ log0 # <<>>
    /\ Len(yielded) >= 2

(***************************************************************************)
(* process_results alone, over every log of at most MaxLogLen lines and    *)
(* storage that may fail.                                                  *)
(***************************************************************************)
LogTweets == {Tweet1, Tweet2, Tweet3, Tweet4, Tweet5, Tweet6}

LogLines == {Dumps(Stamp(t, None)) : t \in LogTweets} \cup {CorruptLine}

Logs == UNION {[1..n -> LogLines] : n \in 0..MaxLogLen}

InitAgg == NoRun /\ NoAggregation /\ log \in Logs /\ upstream = NoScript

NextAgg == \E storage \in Storage : process_results(storage)

SpecAgg == InitAgg /\ [][NextAgg]_vars

(***************************************************************************)
(* Properties of process_results (SpecAgg).  The occurrences a log holds   *)
(* are defined here from the log itself: an item without entities, or      *)
(* without the list, holds none.                                           *)
(***************************************************************************)
\* the last run of process_results met no storage failure
StorageHeld == agg \in {"ok", "row_error", "group_error"}

\* every line of the log is a JSON item with an id and a creation time
LogIsWellFormed ==
    \A i \in 1..Len(log) :
        /\ Parses(log[i])
        /\ {"id", "created_at"} \subseteq DOMAIN Loads(log[i])

\* the list of the given kind in item i of the log
EntityList(i, kind) ==
    LET item == Loads(log[i])
    IN  IF "entities" \in DOMAIN item /\ kind \in DOMAIN item.entities
        THEN item.entities[kind] ELSE <<>>

\* the occurrences of a kind: <<i, j>> is entry j of the list of item i
Occurrences(kind) ==
    UNION {{<<i, j>> : j \in 1..Len(EntityList(i, kind))} :
              i \in 1..Len(log)}

\* the grouping key of an occurrence
KeyOf(o, kind, field) == Get(EntityList(o[1], kind)[o[2]], field, "")

\* the tweet id of an occurrence
IdOf(o) == Loads(log[o[1]]).id

\* the occurrences of a kind with key k
Group(kind, field, k) ==
    {o \in Occurrences(kind) : KeyOf(o, kind, field) = k}

\* some item of the log has no entities, or entities without one of the lists
SomeListMissing ==
    \E i \in 1..Len(log) :
        \/ "entities" \notin DOMAIN Loads(log[i])
        \/ "mentions" \notin DOMAIN Loads(log[i]).entities
        \/ "annotations" \notin DOMAIN Loads(log[i]).entities

RECURSIVE SumOfCounts(_)
SumOfCounts(rows) ==
    IF rows = <<>> THEN 0 ELSE Head(rows).count + SumOfCounts(Tail(rows))

\* the rows of a summary count the occurrences of the kind in the log
CountsAgree(rows, kind, field) ==
    /\ \A r \in 1..Len(rows) :
           rows[r].count = Cardinality(Group(kind, field, rows[r].key))
    /\ \A o \in Occurrences(kind) :
           Cardinality({r \in 1..Len(rows) :
                           rows[r].key = KeyOf(o, kind, field)}) = 1
    /\ \A r \in 1..Len(rows) : Group(kind, field, rows[r].key) # {}
    /\ SumOfCounts(rows) = Cardinality(Occurrences(kind))

\* C6: on a log with an item that has no entities, or no mentions list, or
\* no annotations list, and whose other items hold a mention and an
\* annotation, process_results ends without error and its summaries count
\* the occurrences of the other items.
C6_MissingEntitiesTolerated ==
    (/\ agg # "none"
     /\ StorageHeld
     /\ LogIsWellFormed
     /\ SomeListMissing
     /\ Occurrences("mentions") # {}
     /\ Occurrences("annotations") # {})
        => /\ agg = "ok"
           /\ CountsAgree(mention_csv.rows, "mentions", "username")
           /\ CountsAgree(annotation_csv.rows, "annotations",
                          "normalized_text")

\* C7: on a log that holds no mention or no annotation (the empty log is
\* one), process_results ends without error and the summary of a kind
\* without occurrence is the header alone.
C7_EmptySummaries ==
    (/\ agg # "none"
     /\ StorageHeld
     /\ LogIsWellFormed
     /\ ~SomeListMissing
     /\ Occurrences("mentions") = {} \/ Occurrences("annotations") = {})
        => /\ agg = "ok"
           /\ Occurrences("mentions") = {} =>
                  mention_csv = Csv("username", <<>>)
           /\ Occurrences("annotations") = {} =>
                  annotation_csv = Csv("normalized_text", <<>>)

\* C8: in the summaries a run of process_results has written, the count of
\* a row is the number of occurrences of its key in the log, every key that
\* occurs has exactly one row, and the counts add up to the number of
\* occurrences.
C8_CountsAgree ==
    agg = "ok" =>
        /\ CountsAgree(mention_csv.rows, "mentions", "username")
        /\ CountsAgree(annotation_csv.rows, "annotations", "normalized_text")

\* summaries written from a log in which one tweet occurs twice: a key with
\* two occurrences in one tweet id, beside another key
C8_Witness ==
    /\ agg = "ok"
    /\ Len(mention_csv.rows) >= 2
    /\ \E r \in 1..Len(mention_csv.rows) :
           /\ mention_csv.rows[r].count >= 2
           /\ Cardinality({IdOf(o) :
                  o \in Group("mentions", "username",
                              mention_csv.rows[r].key)}) = 1

\* the number a string of digits denotes
RECURSIVE NumVal(_)
NumVal(digits) ==
    IF digits = <<>> THEN 0
    ELSE 10 * NumVal(SubSeq(digits, 1, Len(digits) - 1))
             + digits[Len(digits)]

\* the id a row's last_tweet_url is built from is the id of an occurrence
\* of the row's key and is not older than any occurrence of that key
LastIsNewest(rows, kind, field) ==
    \A r \in 1..Len(rows) :
        LET last == rows[r].last_tweet_url[2]
            group == Group(kind, field, rows[r].key)
        IN  /\ \E o \in group : IdOf(o) = last
            /\ \A o \in group : NumVal(IdOf(o)) <= NumVal(last)

\* C9: in the summaries a run has written, the id of every row's permalink
\* is the id of an occurrence of the row's key, and no occurrence of that
\* key has a more recent (numerically larger) id.
C9_LastSeenIsNewest ==
    agg = "ok" =>
        /\ LastIsNewest(mention_csv.rows, "mentions", "username")
        /\ LastIsNewest(annotation_csv.rows, "annotations",
                        "normalized_text")

\* C10: a run of process_results that fails, at whatever step, leaves both
\* summaries as they were before it.
C10_AllOrNothing ==
    agg \notin {"none", "ok"} =>
        /\ mention_csv = mention_csv0
        /\ annotation_csv = annotation_csv0

\* the counts of a summary's rows never increase from one row to the next
NonIncreasing(rows) ==
    \A r \in 1..(Len(rows) - 1) : rows[r].count >= rows[r + 1].count

\* C11: in every summary process_results has written, each row's count is
\* at least the count of the row after it.
C11_SortedByCount ==
    /\ mention_csv # Absent => NonIncreasing(mention_csv.rows)
    /\ annotation_csv # Absent => NonIncreasing(annotation_csv.rows)

\* a mention summary in which the sort moved "bob" (two occurrences) before
\* "alice" (one), against the key order of groupby
C11_Witness ==
    /\ agg = "ok"
    /\ Len(mention_csv.rows) = 2
    /\ mention_csv.rows[1].key = "bob"
    /\ mention_csv.rows[1].count = 2
    /\ mention_csv.rows[2].key = "alice"
    /\ mention_csv.rows[2].count = 1

\* C12: a run of process_results that succeeds right after one that
\* succeeded, over the same log, writes summaries equal to those the first
\* run wrote: the same rows with the same values in the same order.
C12_Reaggregation ==
    [][(agg = "ok" /\ agg' = "ok" /\ log' = log)
          => (mention_csv' = mention_csv /\ annotation_csv' = annotation_csv)
      ]_vars

\* the state after a second successful run over a log whose mention summary
\* has two rows of equal count: the files are as the first run left them
C12_Witness ==
    /\ agg = "ok"
    /\ mention_csv0 # Absent
    /\ mention_csv0 = mention_csv
    /\ annotation_csv0 # Absent
    /\ annotation_csv0 = annotation_csv
    /\ Len(mention_csv.rows) >= 2
    /\ mention_csv.rows[1].count = mention_csv.rows[2].count

(***************************************************************************)
(* Further properties of search_tweets and fetch_results, stated over the  *)
(* responses the run received (SpecPaging).                                *)
(***************************************************************************)
\* a response with a next token and a list of tweet objects
WellFormed(response) ==
    /\ ~TokenMissing(response)
    /\ ~DataIsNone(response)
    /\ \A i \in 1..Len(response.data) : HasData(response.data[i])

\* the upstream of C13: every response so far is well formed and names "A"
\* as the next token, and the first page holds fewer than maxResults items
RepeatsA ==
    /\ requests >= 1
    /\ \A i \in 1..requests :
           /\ WellFormed(responses[i])
           /\ responses[i].meta.next_token = "A"
    /\ Len(responses[1].data) < result_count

\* C13, as stated: against that upstream, a run that has ended yielded the
\* items of the first page and no other.
C13_OnePage ==
    (RepeatsA /\ pc = "done") => yielded = Yields(responses[1], "A")

\* C13, amended: against that upstream a run issues two requests, None and
\* "A", yields the items of both pages and ends at the second response.
C13_TwoPages ==
    RepeatsA =>
        /\ requests <= 2
        /\ requests = 1 => pc = "loop" /\ pagination_token = "A"
        /\ requests = 2 =>
               /\ pc = "done"
               /\ outcome = "returned"
               /\ sent = <<None, "A">>
               /\ yielded = Yields(responses[1], "A")
                               \o Yields(responses[2], "A")

\* a run ended by the second "A", each of its two pages holding an item
C13_Witness ==
    /\ RepeatsA
    /\ requests = 2
    /\ pc = "done"
    /\ Len(responses[1].data) > 0
    /\ Len(responses[2].data) > 0
    /\ Len(yielded) = Len(responses[1].data) + Len(responses[2].data)

\* response.data is a list of tweet objects
ReadableData(response) ==
    /\ ~DataIsNone(response)
    /\ \A i \in 1..Len(response.data) : HasData(response.data[i])

\* the response names no next page: meta has no "next_token", or it is None
EndOfData(response) ==
    TokenMissing(response) \/ response.meta.next_token = None

\* C14: a response that carries items and names no next page has all its
\* items yielded, and it is the last response of the run, which has ended.
C14_LastPageKept ==
    \A i \in 1..requests :
        (/\ ReadableData(responses[i])
         /\ Len(responses[i].data) > 0
         /\ EndOfData(responses[i]))
            => /\ got[i] = Len(responses[i].data)
               /\ i = requests
               /\ pc = "done"

\* the number of dicts yielded from the first n responses
RECURSIVE YieldedFrom(_)
YieldedFrom(n) == IF n = 0 THEN 0 ELSE YieldedFrom(n - 1) + got[n]

\* C15: every dict yielded from a response carries, as "next_token", the
\* next token of that response, and is otherwise the tweet the response
\* held at its position; so the dicts of one page carry the same stamp.
C15_StampIsNextToken ==
    \A i \in 1..requests :
        \A k \in 1..got[i] :
            LET item == yielded[YieldedFrom(i - 1) + k]
                tweet == responses[i].data[k].data
            IN  /\ item.next_token = responses[i].meta.next_token
                /\ \A f \in DOMAIN tweet : item[f] = tweet[f]

\* a second page of two or more items, requested with "A" and stamped "B"
C15_Witness ==
    /\ requests >= 2
    /\ sent[2] = "A"
    /\ got[2] >= 2
    /\ \A k \in 1..got[2] : yielded[got[1] + k].next_token = "B"

\* C16: a response without a next token is the last of its run: the run
\* has ended without raising, none of the response's items was yielded, and
\* the log holds, after its earlier content, every dict the run had yielded.
C16_NoTokenEndsCleanly ==
    \A i \in 1..requests :
        TokenMissing(responses[i]) =>
            /\ i = requests
            /\ pc = "done"
            /\ outcome = "returned"
            /\ got[i] = 0
            /\ log = WriteAll(log0, yielded)

\* a run that had yielded dicts when a response with readable items came
\* without a next token
C16_Witness ==
    /\ requests >= 2
    /\ TokenMissing(responses[requests])
    /\ ReadableData(responses[requests])
    /\ Len(responses[requests].data) > 0
    /\ Len(yielded) > 0
    /\ log0 # <<>>

\* the response has a next token but its item list cannot be read through:
\* it is None, or one of its elements is no tweet object
Malformed(response) ==
    ~TokenMissing(response) /\ ~ReadableData(response)

\* C17: a response whose item list is malformed has none of its items
\* yielded, and it is the last of its run, which has ended without raising.
C17_PageAllOrNothing ==
    \A i \in 1..requests :
        Malformed(responses[i]) =>
            /\ got[i] = 0
            /\ i = requests
            /\ pc = "done"
            /\ outcome = "returned"

(***************************************************************************)
(* main run again and again against one upstream: the answer to a request  *)
(* depends on its pagination_token alone, and every run is given the same  *)
(* MAX_RESULT_COUNT (line 164).                                            *)
(***************************************************************************)
\* the tokens such an upstream answers: a run makes at most two requests
ScriptTokens == {None, "A"}

\* the answers it may give to one token
ScriptResponses ==
    {Response(meta, shape) :
        meta \in Metas({"A"}), shape \in Shapes(PageSize(MaxResultCount))}

Scripts == [ScriptTokens -> ScriptResponses]

InitRerun ==
    NoRun /\ NoAggregation /\ log = <<>> /\ upstream \in Scripts

NextRerun ==
    \/ Len(log) < MaxLogLen /\ fetch_results(MaxResultCount)
    \/ /\ pagination_token \in DOMAIN upstream
       /\ Page(upstream[pagination_token])
    \/ fetch_return
    \/ \E storage \in Storage : process_results(storage)

SpecRerun == InitRerun /\ [][NextRerun]_vars

(***************************************************************************)
(* Properties of repeated runs (SpecRerun).                                *)
(***************************************************************************)
\* content is unit written one or more times over (nothing, if unit is)
IsRepetition(content, unit) ==
    IF unit = <<>> THEN content = <<>>
    ELSE /\ Len(content) % Len(unit) = 0
         /\ \A i \in 1..Len(content) :
                content[i] = unit[((i - 1) % Len(unit)) + 1]

\* a run begins with the initial pagination state
FreshStart ==
    (pc = "idle" /\ pc' = "loop") =>
        /\ pagination_token' = None
        /\ pagination_tokens' = {}
        /\ count' = 0

\* the log is some sequence of lines written twice
Doubled(content) ==
    /\ content # <<>>
    /\ Len(content) % 2 = 0
    /\ \A i \in 1..(Len(content) \div 2) :
           content[i] = content[i + Len(content) \div 2]

\* the occurrences of key k in the first half of the log
HalfGroup(kind, field, k) ==
    {o \in Group(kind, field, k) : o[1] <= Len(log) \div 2}

\* the rows count twice what the first half of the log holds
CountsTwice(rows, kind, field) ==
    /\ \A r \in 1..Len(rows) :
           rows[r].count = 2 * Cardinality(HalfGroup(kind, field, rows[r].key))
    /\ \A o \in Occurrences(kind) :
           \E r \in 1..Len(rows) : rows[r].key = KeyOf(o, kind, field)

\* an aggregation over a doubled log that writes its summaries counts
\* every occurrence of one half twice
AggregateCountsTwice ==
    (/\ \E storage \in Storage : process_results(storage)
     /\ Doubled(log)
     /\ agg' = "ok") =>
        /\ CountsTwice(mention_csv'.rows, "mentions", "username")
        /\ CountsTwice(annotation_csv'.rows, "annotations",
                       "normalized_text")

\* C18: every run begins with pagination_token None, no collected token
\* and count 0; when a run against the same upstream ends, the log it found
\* is the sequence of its own lines written by each earlier run, and it has
\* added that sequence once more; an aggregation that then writes its
\* summaries counts every occurrence twice.
C18_RunsRepeat ==
    /\ [][FreshStart]_vars
    /\ [](pc = "done" =>
             /\ IsRepetition(log0, WriteAll(<<>>, yielded))
             /\ log = WriteAll(log0, yielded))
    /\ [][AggregateCountsTwice]_vars

\* the log of two runs of two items each, four lines, aggregated: "alice",
\* mentioned in both items, is counted four times
C18_Witness ==
    /\ pc = "idle"
    /\ agg = "ok"
    /\ Len(log) = 4
    /\ Doubled(log)
    /\ log[1] # log[2]
    /\ \E r \in 1..Len(mention_csv.rows) : mention_csv.rows[r].count = 4

\* a run of process_results, whatever the storage does, leaves the log as
\* it is
AggregationKeepsLog ==
    (\E storage \in Storage : process_results(storage)) => log' = log

\* the log changes only when a fetch run appends the dicts it yields
OnlyFetchAppends ==
    log' # log =>
        /\ pc = "loop"
        /\ log' = WriteAll(log, SubSeq(yielded', Len(yielded) + 1,
                                       Len(yielded')))

\* C19: no run of process_results, successful or failed, changes the log,
\* and in any interleaving of fetch runs and aggregation runs the only
\* changes of the log are the lines the fetch runs append: the log is the
\* concatenation of what the fetch runs appended.
C19_AggregationReadsOnly ==
    [][AggregationKeepsLog /\ OnlyFetchAppends]_vars

\* a fetch run, an aggregation, a fetch run that added lines and a second
\* aggregation, which failed on writing after it replaced the first summary
C19_Witness ==
    /\ pc = "idle"
    /\ agg = "annotation_write_error"
    /\ mention_csv0 # Absent
    /\ mention_csv # mention_csv0
    /\ Len(log) >= 2

====
